---- MODULE Spec2Model ----
(***************************************************************************)
(* A model of src/Files/warranty_dell.py: the Dell warranty fetcher        *)
(* (Dell.run_warranty_check) and the response processor                    *)
(* (Dell.process_result).                                                   *)
(*                                                                         *)
(* Python strings are sequences of one-character strings, so that slicing, *)
(* splitting, substring search and concatenation are computed, not assumed.*)
(* Python dicts are functions whose DOMAIN is the set of keys present.     *)
(* What the code only prints (the debug and error messages) is not state.  *)
(*                                                                         *)
(* The payload handed to process_result is revealed to the model as the    *)
(* two for loops consume it: each iteration draws the next asset entry or  *)
(* the next entitlement line from the input sets, and the loop may find    *)
(* the sequence exhausted at any point. The code only reads the payload,   *)
(* so this is the same set of runs as drawing the whole payload first.     *)
(***************************************************************************)
EXTENDS Integers, Sequences, FiniteSets, TLC

VARIABLES
    self_order_no,  \* self.order_no: the configured strategy (ORDER_NO_TYPE)
    self_common,    \* self.common
    sink_records,   \* whether the sink behind self.d42_rest records uploads in purchases
    purchases,      \* the caller's seen set: composite key -> <<start, end>>
    recorded,       \* history: the (serial, contract, end, start) entries purchases was built from
    pc,             \* where process_result is: "idle", "items", "lines", "raised"
    raised,         \* the exception that left process_result, or NoException
    item,           \* the current asset entry
    order_no,       \* local order_no of the current asset
    serial,         \* local serial of the current asset
    sub_item,       \* the current entitlement line
    data,           \* local dict data
    calls,          \* the records handed to upload_data by the last step
    fpc,            \* where run_warranty_check is: "idle", "running", "returned", "raised"
    stack,          \* the active run_warranty_check frames, innermost last
    requests,       \* the HTTP requests issued so far, in order
    clock,          \* seconds slept so far
    fresult         \* what the top-level run_warranty_check call returned or raised

pvars == <<self_order_no, self_common, sink_records, purchases, recorded, pc, raised,
           item, order_no, serial, sub_item, data, calls>>
fvars == <<fpc, stack, requests, clock, fresult>>
vars == <<self_order_no, self_common, sink_records, purchases, recorded, pc, raised,
          item, order_no, serial, sub_item, data, calls,
          fpc, stack, requests, clock, fresult>>

----------------------------------------------------------------------------
(* Bounds of the model. *)

\* the random digit streams generate_random_order_no can draw are numbered 0..MaxSeed
MaxSeed == 1
\* the keys a seen set holds at most
MaxSeen == 1
\* the longest ServiceLevelDescription in the inputs
MaxDescLen == 33
\* a guard on the number of HTTP requests, never reached by the code (it stops at 2)
MaxRequests == 3

(* Program constants. *)
LineServiceTypeMax == 32
OrderNoLen == 9
SleepSeconds == 30

----------------------------------------------------------------------------
(* Strings. *)

DigitChars == <<"0", "1", "2", "3", "4", "5", "6", "7", "8", "9">>

\* str(n) for a single digit n
str(n) == <<DigitChars[n + 1]>>

Min(a, b) == IF a < b THEN a ELSE b

\* s.split(sep)[0]: the part of s before the first sep, all of s when there is none
split_first(s, sep) ==
    IF \E k \in 1..Len(s) : s[k] = sep
    THEN SubSeq(s, 1, (CHOOSE k \in 1..Len(s) :
                          s[k] = sep /\ \A m \in 1..(k - 1) : s[m] # sep) - 1)
    ELSE s

\* needle in hay, for Python strings
str_in(needle, hay) ==
    \E k \in 1..(Len(hay) - Len(needle) + 1) :
        SubSeq(hay, k, k + Len(needle) - 1) = needle

\* left(s, amount): s[:amount]
left(s, amount) == SubSeq(s, 1, Min(amount, Len(s)))

\* a value s[:n] can be taken of: JSON null and numbers raise TypeError
sliceable(v) == v.t = "str"

compellent == <<"c", "o", "m", "p", "e", "l", "l", "e", "n", "t">>

----------------------------------------------------------------------------
(* Dicts. *)

EmptyDict == [k \in {} |-> k]

\* d.update({k: v})
update(d, k, v) == (k :> v) @@ d

\* a clear that leaves the dict as it is
clear_nothing(d) == d
\* d.clear()
clear(d) == EmptyDict

----------------------------------------------------------------------------
(* The inputs. *)

\* Python None and JSON null
None == [t |-> "null"]
JStr(s) == [t |-> "str", v |-> s]

TimePart == <<"T", "0", "0", ":", "0", "0", ":", "0", "0">>
\* the calendar day 202y-01-15
Day(y) == <<"2", "0", "2", y, "-", "0", "1", "-", "1", "5">>

Serials == {<<"J", "7">>, <<"J">>}
ItemNumbers == {<<"9">>, <<"7", "9">>}
ProductIds == {<<"p", "e">>, <<"s", "c", "-">> \o compellent \o <<"4">>}
ServiceLevelGroups == {-1, 3, 5, 8, 11}
StartDates == {Day("4") \o TimePart}
EndDates == {Day("7") \o TimePart}

\* a description of n characters, all different (character codes 1..n)
Text(n) == [k \in 1..n |-> k]
DescriptionLengths == {LineServiceTypeMax, MaxDescLen}
\* the ways a line can carry ServiceLevelDescription: a string, or JSON null
Descriptions == {JStr(Text(n)) : n \in DescriptionLengths} \cup {None}

AssetHeaders ==
    {[ServiceTag |-> <<"J", "7">>, OrderNumber |-> <<"4", "2">>,
      ShipDate |-> Day("3") \o TimePart],
     [ServiceTag |-> <<"J">>, OrderNumber |-> <<"5">>, ShipDate |-> <<>>]}

Sections == <<"AssetEntitlementData", "AssetHeaderData", "ProductHeaderData">>
SectionSet == {Sections[k] : k \in 1..Len(Sections)}

\* the entries of AssetWarrantyResponse: the sections an entry has, and their content
WellFormedItems ==
    {[sections |-> SectionSet, asset |-> a, product |-> [ProductId |-> p]] :
        a \in AssetHeaders, p \in ProductIds}
MalformedItems ==
    {[sections |-> ss,
      asset |-> CHOOSE a \in AssetHeaders : a.ServiceTag = <<"J", "7">>,
      product |-> [ProductId |-> <<"p", "e">>]] : ss \in (SUBSET SectionSet) \ {SectionSet}}
Items == WellFormedItems \cup MalformedItems

\* the entitlement lines, with and without the optional ServiceLevelDescription
LinesWithout ==
    {[ItemNumber |-> c, ServiceLevelGroup |-> g, StartDate |-> s, EndDate |-> e] :
        c \in ItemNumbers, g \in ServiceLevelGroups, s \in StartDates, e \in EndDates}
Lines ==
    LinesWithout \cup {update(l, "ServiceLevelDescription", d) :
                          l \in LinesWithout, d \in Descriptions}

\* what the caller may have recorded in the seen set before the first call
SeenEntries ==
    {[serial |-> <<"J", "7">>, contract |-> <<"9">>, end |-> Day(e), start |-> Day(y)] :
        e \in {"7", "8"}, y \in {"4", "5"}}

----------------------------------------------------------------------------
(* Dell: the order number. *)

\* random.randint(0, 9) at the k-th draw of digit stream seed
randint(seed, k) == (seed * k) % 10

\* generate_random_order_no, when random draws digit stream seed
generate_random_order_no(seed) == [k \in 1..OrderNoLen |-> str(randint(seed, k))[1]]

Seeds == 0..MaxSeed

\* __init__: self.common
init_common(order_no_type, seed) ==
    IF order_no_type = "common" THEN generate_random_order_no(seed) ELSE None

\* a resolution that ignores the strategy
resolve_always_random(order_no_type, asset, common, seed) == generate_random_order_no(seed)
\* process_result: the order_no of an asset entry
resolve_order_no(order_no_type, asset, common, seed) ==
    IF order_no_type = "vendor" THEN asset.OrderNumber
    ELSE IF order_no_type = "common" THEN common
    ELSE generate_random_order_no(seed)

\* the seeds that give different runs: the draw is made only in the else branch
seeds_used(order_no_type) ==
    IF order_no_type \in {"vendor", "common"} THEN {0} ELSE Seeds

----------------------------------------------------------------------------
(* Dell.process_result: the pieces of the loop body. *)

\* item[...] of the three sections in the try block: the first missing key raises
first_missing(it) ==
    IF \E k \in 1..Len(Sections) : Sections[k] \notin it.sections
    THEN Sections[CHOOSE k \in 1..Len(Sections) :
                      Sections[k] \notin it.sections
                      /\ \A m \in 1..(k - 1) : Sections[m] \in it.sections]
    ELSE "none"

\* a subscript of a dict with a missing key raises KeyError
subscript_error == "KeyError"

\* except IndexError: the exceptions the handler of the try block catches
except_handles(exception) == exception = "IndexError"

\* the chain without the product test on group 11
contract_type_11_always(service_level_group, product_id) ==
    IF service_level_group \in {-1, 5, 8, 11} THEN "Warranty" ELSE "Service"
\* the chain with the compellent test on group 8 ahead of the first test
contract_type_8_compellent_first(service_level_group, product_id) ==
    IF service_level_group = 8 /\ str_in(compellent, product_id) THEN "Service"
    ELSE IF service_level_group \in {-1, 5, 8} THEN "Warranty"
    ELSE IF service_level_group = 11 /\ str_in(compellent, product_id) THEN "Warranty"
    ELSE "Service"
\* the if/elif chain on service_level_group
contract_type(service_level_group, product_id) ==
    IF service_level_group = -1 \/ service_level_group = 5 \/ service_level_group = 8
    THEN "Warranty"
    ELSE IF service_level_group = 8 /\ str_in(compellent, product_id) THEN "Service"
    ELSE IF service_level_group = 11 /\ str_in(compellent, product_id) THEN "Warranty"
    ELSE "Service"

\* hasher = serial + line_contract_id + end_date
hasher(ser, line_contract_id, end_date) == ser \o line_contract_id \o end_date

\* a lookup that never finds the key
lookup_always_raises(p, h) == TRUE
\* purchases[hasher] raises KeyError
lookup_raises(p, h) == h \notin DOMAIN p

\* a branch that records the uploaded line itself
own_write_inserts(p, h, start_date, end_date) == update(p, h, <<start_date, end_date>>)
\* what the except KeyError branch itself writes to purchases: nothing
own_write(p, h, start_date, end_date) == p

\* self.d42_rest.upload_data(data): the sink, which may record the upload in purchases
\* (a recording sink does so while the seen set holds fewer than MaxSeen keys)
upload_data(p, rec, records) ==
    IF records /\ Cardinality(DOMAIN p) < MaxSeen
    THEN update(p, rec["line_device_serial_nos"] \o rec["line_contract_id"]
                       \o rec["line_end_date"],
                <<rec["line_start_date"], rec["line_end_date"]>>)
    ELSE p

\* the fields of data set before the classification
header_fields(d, ord, ser, asset, sub) ==
    LET ship_date == split_first(asset.ShipDate, "T")
        d1 == update(d, "order_no", ord)
        d2 == IF ship_date # <<>> THEN update(d1, "po_date", ship_date) ELSE d1
        d3 == update(d2, "completed", "yes")
        d4 == update(d3, "vendor", "Dell Inc.")
        d5 == update(d4, "line_device_serial_nos", ser)
        d6 == update(d5, "line_type", "contract")
        d7 == update(d6, "line_item_type", "device")
        d8 == update(d7, "line_completed", "yes")
        d9 == update(d8, "line_notes", sub.ItemNumber)
    IN  update(d9, "line_contract_id", sub.ItemNumber)

\* the try block around left(sub_item['ServiceLevelDescription'], 32)
service_type_field(d, sub) ==
    IF "ServiceLevelDescription" \in DOMAIN sub /\ sliceable(sub.ServiceLevelDescription)
    THEN update(d, "line_service_type",
                left(sub.ServiceLevelDescription.v, LineServiceTypeMax))
    ELSE d

----------------------------------------------------------------------------
(* Dell.process_result. *)

NoException == [type |-> "none", key |-> "none"]

\* the locals of process_result outside a call
NoLocals ==
    /\ item' = None
    /\ order_no' = None
    /\ serial' = None
    /\ sub_item' = None
    /\ calls' = <<>>

\* the caller's seen set, as built from the entries it recorded
purchases_of(entries) ==
    [h \in {hasher(e.serial, e.contract, e.end) : e \in entries} |->
        LET e == CHOOSE x \in entries : hasher(x.serial, x.contract, x.end) = h
        IN  <<e.start, e.end>>]

\* the entry a record handed to the sink stands for
entry_of(rec) ==
    [serial |-> rec["line_device_serial_nos"], contract |-> rec["line_contract_id"],
     end |-> rec["line_end_date"], start |-> rec["line_start_date"]]

\* __init__, and the seen set the caller brings
InitProcess ==
    /\ self_order_no \in {"vendor", "common", "random"}
    /\ \E seed \in (IF self_order_no = "common" THEN Seeds ELSE {0}) :
          self_common = init_common(self_order_no, seed)
    /\ sink_records \in BOOLEAN
    /\ recorded \in {{}} \cup {{e} : e \in SeenEntries}
    /\ purchases = purchases_of(recorded)
    /\ pc = "idle"
    /\ raised = NoException
    /\ item = None
    /\ order_no = None
    /\ serial = None
    /\ sub_item = None
    /\ data = EmptyDict
    /\ calls = <<>>

\* process_result(result, purchases) with 'AssetWarrantyResponse' in result
process_result ==
    /\ pc = "idle"
    /\ pc' = "items"
    /\ data' = EmptyDict
    /\ NoLocals
    /\ UNCHANGED <<self_order_no, self_common, sink_records, purchases, recorded, raised>>
    /\ UNCHANGED fvars

\* process_result(result, purchases) with no 'AssetWarrantyResponse' in result:
\* data = {} and the function returns
process_result_no_response ==
    /\ pc = "idle"
    /\ pc' = "idle"
    /\ data' = EmptyDict
    /\ NoLocals
    /\ UNCHANGED <<self_order_no, self_common, sink_records, purchases, recorded, raised>>
    /\ UNCHANGED fvars

\* for item in result['AssetWarrantyResponse']: the try block, its handler, and the
\* head of the else block
next_item ==
    /\ pc = "items"
    /\ \E it \in Items :
        /\ item' = it
        /\ calls' = <<>>
        /\ IF first_missing(it) # "none"
           THEN /\ IF except_handles(subscript_error)
                   THEN pc' = "items" /\ raised' = raised
                   ELSE /\ pc' = "raised"
                        /\ raised' = [type |-> subscript_error, key |-> first_missing(it)]
                /\ UNCHANGED <<order_no, serial, sub_item>>
           ELSE /\ \E seed \in seeds_used(self_order_no) :
                      order_no' = resolve_order_no(self_order_no, it.asset, self_common, seed)
                /\ serial' = it.asset.ServiceTag
                /\ pc' = "lines"
                /\ UNCHANGED <<raised, sub_item>>
    /\ UNCHANGED <<self_order_no, self_common, sink_records, purchases, recorded, data>>
    /\ UNCHANGED fvars

\* for sub_item in warranties: one pass of the loop body
next_line ==
    /\ pc = "lines"
    /\ \E sub \in Lines :
        LET product_id == item.product.ProductId
            d1 == header_fields(clear(data), order_no, serial, item.asset, sub)
            ct == contract_type(sub.ServiceLevelGroup, product_id)
            d2 == update(d1, "line_contract_type", ct)
            d3 == service_type_field(d2, sub)
            start_date == split_first(sub.StartDate, "T")
            end_date == split_first(sub.EndDate, "T")
            d4 == update(update(d3, "line_start_date", start_date),
                         "line_end_date", end_date)
            h == hasher(serial, sub.ItemNumber, end_date)
        IN  /\ sub_item' = sub
            /\ IF ct = "Service"
               THEN \* continue
                    /\ data' = d2
                    /\ calls' = <<>>
                    /\ UNCHANGED <<purchases, recorded>>
               ELSE IF lookup_raises(purchases, h)
               THEN \* except KeyError: upload_data(data), data.clear()
                    /\ calls' = <<d4>>
                    /\ purchases' = own_write(upload_data(purchases, d4, sink_records),
                                              h, start_date, end_date)
                    /\ recorded' = IF purchases' # purchases
                                   THEN recorded \cup {entry_of(d4)} ELSE recorded
                    /\ data' = clear(d4)
               ELSE \* the key is there: the duplicate message, or nothing
                    /\ data' = d4
                    /\ calls' = <<>>
                    /\ UNCHANGED <<purchases, recorded>>
    /\ UNCHANGED <<self_order_no, self_common, sink_records, pc, raised,
                   item, order_no, serial>>
    /\ UNCHANGED fvars

\* the inner for loop is exhausted
end_lines ==
    /\ pc = "lines"
    /\ pc' = "items"
    /\ calls' = <<>>
    /\ UNCHANGED <<self_order_no, self_common, sink_records, purchases, recorded, raised,
                   item, order_no, serial, sub_item, data>>
    /\ UNCHANGED fvars

\* the outer for loop is exhausted: process_result returns
end_items ==
    /\ pc = "items"
    /\ pc' = "idle"
    /\ data' = EmptyDict
    /\ NoLocals
    /\ UNCHANGED <<self_order_no, self_common, sink_records, purchases, recorded, raised>>
    /\ UNCHANGED fvars

NextProcess ==
    \/ process_result
    \/ process_result_no_response
    \/ next_item
    \/ next_line
    \/ end_lines
    \/ end_items

----------------------------------------------------------------------------
(* Dell.run_warranty_check. *)

\* inline_serials: one serial, or a comma-joined batch
SerialBatches == {<<"J", "7">>, <<"J">>, <<"J", "7", ",", "J">>}

\* resp.status_code
StatusCodes == {200, 401, 404, 500}

\* str(resp.status_code) == '401'
is_401(status_code) == status_code = 401

\* what resp.json() gives: the parsed body, or no JSON at all
Bodies ==
    {[t |-> "json", keys |-> {"AssetWarrantyResponse"}],
     [t |-> "json", keys |-> {"InvalidFormatAssets"}],
     [t |-> "invalid"]}

\* the outcomes of requests.get: a response, or a requests.RequestException
Outcomes ==
    {[fault |-> FALSE, status_code |-> c, body |-> b] : c \in StatusCodes, b \in Bodies}
        \cup {[fault |-> TRUE, status_code |-> 0, body |-> [t |-> "invalid"]]}

\* the error resp.json() raises on a body that is no JSON: a ValueError, which newer
\* requests releases make a RequestException
JsonErrors == {"ValueError", "RequestException"}

\* except requests.RequestException
fetch_handles(exception) == exception = "RequestException"

\* a recursive call that passes its own retry on
retry_again(retry) == retry
\* the retry argument of the recursive call: self.run_warranty_check(inline_serials, False)
retry_argument(retry) == FALSE

\* what the statement self.run_warranty_check(inline_serials, False) leaves the caller
\* to return: the call's value is dropped and the function runs off its end
after_retry(value) == None

\* run_warranty_check is not running
FetchIdle ==
    /\ fpc = "idle"
    /\ stack = <<>>
    /\ requests = <<>>
    /\ clock = 0
    /\ fresult = None

Frame(serials, retry) == [inline_serials |-> serials, retry |-> retry, at |-> "get"]

Top == stack[Len(stack)]
Pop == SubSeq(stack, 1, Len(stack) - 1)
SetTop(f) == [stack EXCEPT ![Len(stack)] = f]

\* the innermost call returns value: to its caller, or out of the top-level call
Return(value) ==
    IF Len(stack) = 1
    THEN /\ stack' = <<>>
         /\ fpc' = "returned"
         /\ fresult' = value
    ELSE /\ stack' = [Pop EXCEPT ![Len(stack) - 1].at = "called"]
         /\ UNCHANGED <<fpc, fresult>>

\* an exception no frame handles leaves the top-level call
Raise(exception) ==
    /\ stack' = <<>>
    /\ fpc' = "raised"
    /\ fresult' = [t |-> "exception", type |-> exception]

\* the top-level call run_warranty_check(inline_serials, retry)
run_warranty_check ==
    /\ fpc = "idle"
    /\ \E serials \in SerialBatches, retry \in BOOLEAN :
          stack' = <<Frame(serials, retry)>>
    /\ fpc' = "running"
    /\ UNCHANGED <<requests, clock, fresult>>
    /\ UNCHANGED pvars

\* requests.get and what follows it up to the sleep, the return or the exception
http_get ==
    /\ fpc = "running"
    /\ Top.at = "get"
    /\ Len(requests) < MaxRequests
    /\ \E o \in Outcomes :
        /\ requests' = Append(requests,
                              [id |-> Top.inline_serials, retry |-> Top.retry,
                               depth |-> Len(stack), at |-> clock, outcome |-> o])
        /\ IF o.fault
           THEN \* except requests.RequestException: error_msg, return None
                Return(None)
           ELSE IF is_401(o.status_code)
           THEN /\ stack' = SetTop([Top EXCEPT !.at = "sleep"])
                /\ UNCHANGED <<fpc, fresult>>
           ELSE IF o.body.t = "json"
           THEN Return(o.body)
           ELSE \E e \in JsonErrors :
                   IF fetch_handles(e) THEN Return(None) ELSE Raise(e)
    /\ UNCHANGED clock
    /\ UNCHANGED pvars

\* time.sleep(30), then the retry or return None
sleep ==
    /\ fpc = "running"
    /\ Top.at = "sleep"
    /\ clock' = clock + SleepSeconds
    /\ IF Top.retry
       THEN /\ stack' = Append(SetTop([Top EXCEPT !.at = "calling"]),
                               Frame(Top.inline_serials, retry_argument(Top.retry)))
            /\ UNCHANGED <<fpc, fresult>>
       ELSE Return(None)
    /\ UNCHANGED requests
    /\ UNCHANGED pvars

\* the recursive call has returned: the caller runs off the end of the function
retry_returned ==
    /\ fpc = "running"
    /\ Top.at = "called"
    /\ Return(after_retry(None))
    /\ UNCHANGED <<requests, clock>>
    /\ UNCHANGED pvars

NextFetch ==
    \/ run_warranty_check
    \/ http_get
    \/ sleep
    \/ retry_returned

----------------------------------------------------------------------------
(* The specifications. *)

\* one Dell instance and one seen set, with process_result not running
ProcessIdle ==
    /\ self_order_no = "vendor"
    /\ self_common = None
    /\ sink_records = FALSE
    /\ recorded = {}
    /\ purchases = EmptyDict
    /\ pc = "idle"
    /\ raised = NoException
    /\ item = None
    /\ order_no = None
    /\ serial = None
    /\ sub_item = None
    /\ data = EmptyDict
    /\ calls = <<>>

Init == InitProcess /\ FetchIdle

Next == NextProcess

\* process_result, called any number of times on one Dell instance
Spec == Init /\ [][Next]_vars

InitFetch == ProcessIdle /\ FetchIdle

\* one top-level run_warranty_check call; the interpreter keeps running the call
FetchSpec == InitFetch /\ [][NextFetch]_vars /\ WF_vars(NextFetch)

----------------------------------------------------------------------------
(* The vocabulary of the properties, stated apart from the code's own helpers. *)

\* the date portion of an ISO-8601 timestamp: its first ten characters, YYYY-MM-DD
DatePortion(ts) == SubSeq(ts, 1, Min(10, Len(ts)))

\* the groups and products the Warranty rules name
WarrantyRule(group, product_id) ==
    \/ group \in {-1, 5, 8}
    \/ group = 11 /\ str_in(compellent, product_id)

\* the composite key of a line of the asset with serial ser
KeyOf(ser, sub) == ser \o sub.ItemNumber \o DatePortion(sub.EndDate)

\* the (serial, contract id, end date) triple of a line, and of a seen-set entry
TripleOf(ser, sub) == <<ser, sub.ItemNumber, DatePortion(sub.EndDate)>>
TripleOfEntry(e) == <<e.serial, e.contract, e.end>>

\* a step that is one pass of the loop over the entitlement lines; sub_item' is the line
LineStep == pc = "lines" /\ pc' = "lines"

\* a step that takes the next asset entry; item' is the entry
ItemStep == pc = "items" /\ pc' # "idle"

IsNineDigits(s) ==
    /\ Len(s) = 9
    /\ \A k \in 1..Len(s) : \E n \in 0..9 : <<s[k]>> = str(n)

HasStringDescription(sub) ==
    /\ "ServiceLevelDescription" \in DOMAIN sub
    /\ sub.ServiceLevelDescription.t = "str"

----------------------------------------------------------------------------
(* The properties. *)

\* C1: a line that a Warranty rule matches and whose composite key is not in the seen
\* set when the line is reached causes exactly one upload_data call, whose record has
\* line_contract_type "Warranty", vendor "Dell Inc.", the asset's serial, the line's
\* contract id in line_contract_id and line_notes, and the line's date-only dates.
C1_WarrantyLineUploaded ==
    [][(/\ LineStep
        /\ WarrantyRule(sub_item'.ServiceLevelGroup, item.product.ProductId)
        /\ KeyOf(item.asset.ServiceTag, sub_item') \notin DOMAIN purchases)
       => /\ Len(calls') = 1
          /\ LET r == calls'[1]
             IN  /\ r["line_contract_type"] = "Warranty"
                 /\ r["vendor"] = "Dell Inc."
                 /\ r["line_device_serial_nos"] = item.asset.ServiceTag
                 /\ r["line_contract_id"] = sub_item'.ItemNumber
                 /\ r["line_notes"] = sub_item'.ItemNumber
                 /\ r["line_start_date"] = DatePortion(sub_item'.StartDate)
                 /\ r["line_end_date"] = DatePortion(sub_item'.EndDate)]_vars

\* a group-8 line of a compellent product has just been uploaded
C1_Witness ==
    /\ Len(calls) = 1
    /\ sub_item.ServiceLevelGroup = 8
    /\ str_in(compellent, item.product.ProductId)
    /\ calls[1]["line_contract_type"] = "Warranty"
    /\ calls[1]["line_end_date"] = Day("7")

\* C2: every record handed to upload_data has line_contract_type "Warranty"; a line no
\* Warranty rule matches is classified "Service" and causes no upload call; and upload
\* calls are made only by a pass over a line, at most one per line.
C2_OnlyWarrantyUploaded ==
    [][/\ \A k \in 1..Len(calls') : calls'[k]["line_contract_type"] = "Warranty"
       /\ Len(calls') <= 1
       /\ Len(calls') > 0 => LineStep
       /\ (LineStep /\ ~WarrantyRule(sub_item'.ServiceLevelGroup, item.product.ProductId))
          => /\ calls' = <<>>
             /\ data'["line_contract_type"] = "Service"
             /\ purchases' = purchases]_vars

\* a group-11 line of a product that is not a compellent was classified Service
C2_Witness ==
    /\ pc = "lines"
    /\ calls = <<>>
    /\ "line_contract_type" \in DOMAIN data
    /\ data["line_contract_type"] = "Service"
    /\ sub_item.ServiceLevelGroup = 11
    /\ data["line_contract_id"] = sub_item.ItemNumber

\* C3: a Warranty line whose composite key is in the seen set causes no upload call,
\* whether the stored (start, end) pair equals the line's dates or differs from them.
C3_SeenKeyNotUploaded ==
    [][(/\ LineStep
        /\ WarrantyRule(sub_item'.ServiceLevelGroup, item.product.ProductId)
        /\ KeyOf(item.asset.ServiceTag, sub_item') \in DOMAIN purchases)
       => /\ calls' = <<>>
          /\ purchases' = purchases]_vars

\* a Warranty line was suppressed whose stored pair differs from the line's dates
C3_Witness ==
    /\ pc = "lines"
    /\ calls = <<>>
    /\ "line_end_date" \in DOMAIN data
    /\ data["line_contract_type"] = "Warranty"
    /\ LET h == data["line_device_serial_nos"] \o data["line_contract_id"]
                    \o data["line_end_date"]
       IN  /\ h \in DOMAIN purchases
           /\ purchases[h] # <<data["line_start_date"], data["line_end_date"]>>

\* C4: an asset entry that lacks one of its three sections is skipped: the loop goes on
\* to the entries that follow, and the entry causes no upload call and no other effect.
C4_MalformedEntrySkipped ==
    [][(ItemStep /\ item'.sections # SectionSet)
       => /\ pc' = "items"
          /\ calls' = <<>>
          /\ purchases' = purchases]_vars

\* C5: run_warranty_check returns None only after a transport fault or a 401 with no
\* retry left; a first answer other than 401 is returned parsed, and after a 401 the
\* retry's answer other than 401 is returned parsed. (Bodies that are no JSON are left
\* out: the claim is about the parsed body.)
C5_RetryResultReturned ==
    fpc = "returned" =>
        LET last == requests[Len(requests)].outcome
        IN  /\ (~last.fault /\ ~(last.status_code = 401) /\ last.body.t = "json")
               => fresult = last.body
            /\ fresult = None
               => \/ last.fault
                  \/ last.status_code = 401 /\ ~requests[Len(requests)].retry
                  \/ last.body.t # "json"

\* C6: one top-level call ends, after at most two requests; a second request follows
\* only a 401 answer to a first request made with retry true, comes 30 seconds or more
\* after it and is made with retry false; with retry false a 401 gives None after one
\* request; a transport fault is the last request and gives None.
C6_Safe ==
    /\ Len(requests) <= 2
    /\ \A k \in 2..Len(requests) :
          /\ ~requests[1].outcome.fault
          /\ requests[1].outcome.status_code = 401
          /\ requests[1].retry
          /\ ~requests[k].retry
          /\ requests[k].at >= requests[k - 1].at + 30
    /\ \A k \in 1..Len(requests) :
          requests[k].outcome.fault
             => /\ k = Len(requests)
                /\ fpc # "raised"
                /\ fpc = "returned" => fresult = None
    /\ (/\ fpc = "returned"
        /\ ~requests[1].retry
        /\ ~requests[1].outcome.fault
        /\ requests[1].outcome.status_code = 401)
       => fresult = None /\ Len(requests) = 1

\* C6: always the above, and the top-level call eventually returns or raises
C6_AtMostTwoRequests == [](C6_Safe) /\ <>(fpc \in {"returned", "raised"})

\* the call returned after two requests, both answered 401
C6_Witness ==
    /\ fpc = "returned"
    /\ Len(requests) = 2
    /\ requests[2].outcome.status_code = 401
    /\ clock = 60
    /\ fresult = None

\* C7: in an uploaded record, line_service_type is the first 32 characters of the
\* current line's string description (the description itself when it has 32 characters
\* or fewer), and the field is absent when the line has no description or one that
\* cannot be sliced, whatever earlier lines and assets carried.
C7_ServiceTypeOfCurrentLine ==
    Len(calls) = 1 =>
        LET r == calls[1]
        IN  IF HasStringDescription(sub_item)
            THEN LET d == sub_item.ServiceLevelDescription.v
                 IN  /\ "line_service_type" \in DOMAIN r
                     /\ Len(r["line_service_type"]) = Min(32, Len(d))
                     /\ \A k \in 1..Min(32, Len(d)) : r["line_service_type"][k] = d[k]
            ELSE "line_service_type" \notin DOMAIN r

\* a description of more than 32 characters was uploaded as 32 characters
C7_Witness ==
    /\ Len(calls) = 1
    /\ HasStringDescription(sub_item)
    /\ Len(sub_item.ServiceLevelDescription.v) > 32
    /\ Len(calls[1]["line_service_type"]) = 32

\* C8: the order_no of an uploaded record is, with 'common', the value generated at
\* construction, which never changes; with 'vendor', the OrderNumber of the record's
\* asset; otherwise a 9-digit numeric string drawn when the asset entry is taken, which
\* the passes over the asset's lines leave as it is.
C8_OrderNoStrategy ==
    [][/\ self_common' = self_common
       /\ self_order_no' = self_order_no
       /\ self_order_no = "common" => IsNineDigits(self_common)
       /\ LineStep => order_no' = order_no
       /\ (ItemStep /\ item'.sections = SectionSet /\ self_order_no \notin {"common", "vendor"})
          => IsNineDigits(order_no')
       /\ Len(calls') = 1
          => LET r == calls'[1]
             IN  /\ r["order_no"] = order_no
                 /\ self_order_no = "common" => r["order_no"] = self_common
                 /\ self_order_no = "vendor" => r["order_no"] = item.asset.OrderNumber
                 /\ self_order_no \notin {"common", "vendor"}
                    => IsNineDigits(r["order_no"])]_vars

\* with the vendor strategy a record was uploaded under its asset's order number
C8_Witness ==
    /\ Len(calls) = 1
    /\ self_order_no = "vendor"
    /\ calls[1]["order_no"] = <<"4", "2">>
    /\ item.asset.ServiceTag = <<"J", "7">>

\* C9: the seen set changes only in a step that calls upload_data, and only with a sink
\* that records; with a sink that leaves it alone it never changes.
C9_SeenSetOnlyBySink ==
    [][/\ purchases' # purchases => (sink_records /\ Len(calls') = 1)
       /\ ~sink_records => purchases' = purchases]_vars

\* an upload was made to a sink that does not record, and its key is not in the seen set
C9_Witness ==
    /\ ~sink_records
    /\ Len(calls) = 1
    /\ KeyOf(item.asset.ServiceTag, sub_item) \notin DOMAIN purchases

\* C10: a Warranty line whose (serial, contract id, end date) triple differs from the
\* triple of every entry of the seen set is uploaded.
C10_OtherTripleUploaded ==
    [][(/\ LineStep
        /\ WarrantyRule(sub_item'.ServiceLevelGroup, item.product.ProductId)
        /\ \A e \in recorded :
              TripleOfEntry(e) # TripleOf(item.asset.ServiceTag, sub_item'))
       => Len(calls') = 1]_vars

====
